---------------------------- MODULE Spec2Model ----------------------------
(***************************************************************************)
(* A model of the trash crate (src/src/lib.rs): the TrashInfo metadata     *)
(* codec, reserve_filename and move_to_trash, run by concurrent processes  *)
(* against one shared trash store.                                         *)
(*                                                                         *)
(* Byte strings (OsString, PathBuf, the text of a .trashinfo file) are     *)
(* sequences of byte values 0..255.                                        *)
(***************************************************************************)
EXTENDS Integers, Sequences, FiniteSets, TLC

(***************************************************************************)
(* Bytes and literals                                                      *)
(***************************************************************************)

\* The printable ASCII characters, in code order from 32 (space) to 126 (~);
\* "GRAVE" stands for the grave accent (96).
ASCII ==
    << " ", "!", "\"", "#", "$", "%", "&", "'", "(", ")", "*", "+", ",", "-",
       ".", "/", "0", "1", "2", "3", "4", "5", "6", "7", "8", "9", ":", ";",
       "<", "=", ">", "?", "@", "A", "B", "C", "D", "E", "F", "G", "H", "I",
       "J", "K", "L", "M", "N", "O", "P", "Q", "R", "S", "T", "U", "V", "W",
       "X", "Y", "Z", "[", "\\", "]", "^", "_", "GRAVE", "a", "b", "c", "d", "e",
       "f", "g", "h", "i", "j", "k", "l", "m", "n", "o", "p", "q", "r", "s",
       "t", "u", "v", "w", "x", "y", "z", "{", "|", "}", "~" >>

\* The byte value of a printable character.
Ord(c) == 31 + (CHOOSE i \in 1..Len(ASCII) : ASCII[i] = c)

\* The byte string of a literal written as a tuple of characters.
Lit(t) == [i \in 1..Len(t) |-> Ord(t[i])]

NEWLINE == <<10>>

RECURSIVE Flatten(_)
\* The concatenation of a sequence of byte strings.
Flatten(ss) == IF ss = <<>> THEN <<>> ELSE Head(ss) \o Flatten(Tail(ss))

\* The index of the first byte of s that is in set cs, or 0.
FirstIn(s, cs) ==
    IF \E i \in 1..Len(s) : s[i] \in cs
    THEN CHOOSE i \in 1..Len(s) : s[i] \in cs /\ \A j \in 1..(i-1) : s[j] \notin cs
    ELSE 0

\* The index of the last byte of s equal to c, or 0.
LastIndexOf(s, c) ==
    IF \E i \in 1..Len(s) : s[i] = c
    THEN CHOOSE i \in 1..Len(s) : s[i] = c /\ \A j \in (i+1)..Len(s) : s[j] # c
    ELSE 0

RECURSIVE SplitOn(_, _)
\* s split at every byte c (the separators dropped).
SplitOn(s, c) ==
    LET i == FirstIn(s, {c})
    IN  IF i = 0 THEN <<s>>
        ELSE <<SubSeq(s, 1, i-1)>> \o SplitOn(SubSeq(s, i+1, Len(s)), c)

(***************************************************************************)
(* u32::to_string and the decimal fields of a date                         *)
(***************************************************************************)

Digit(d) == 48 + d
IsDigit(b) == b \in 48..57

RECURSIVE to_string(_)
\* duplicates.to_string(): decimal, no padding.
to_string(n) == IF n < 10 THEN <<Digit(n)>> ELSE to_string(n \div 10) \o <<Digit(n % 10)>>

RECURSIVE ZeroPad(_, _)
\* n in decimal, zero-padded on the left to at least w digits (%Y, %m, %d, ...).
ZeroPad(n, w) == IF Len(to_string(n)) >= w THEN to_string(n) ELSE <<Digit(0)>> \o ZeroPad(n, w-1)

RECURSIVE ParseNat(_)
\* The number a non-empty string of decimal digits denotes.
ParseNat(s) == IF Len(s) = 1 THEN s[1] - 48 ELSE 10 * ParseNat(SubSeq(s, 1, Len(s)-1)) + (s[Len(s)] - 48)


(***************************************************************************)
(* Percent-encoding of the Path value                                      *)
(***************************************************************************)

PERCENT == Ord("%")

\* percent_encoding::DEFAULT_ENCODE_SET: the C0 controls, everything above '~',
\* and space " # < > ` ? { }.  Neither '%' nor '/' is in the set.
DEFAULT_ENCODE_SET ==
    (0..31) \cup (127..255)
      \cup {Ord(" "), Ord("\""), Ord("#"), Ord("<"), Ord(">"), Ord("GRAVE"), Ord("?"), Ord("{"), Ord("}")}

\* The upper-case hexadecimal digit of a value 0..15.
HexDigit(v) == IF v < 10 THEN 48 + v ELSE 55 + v

\* The value of a hexadecimal digit of either case, or -1.
HexVal(b) ==
    IF b \in 48..57 THEN b - 48
    ELSE IF b \in 65..70 THEN b - 55
    ELSE IF b \in 97..102 THEN b - 87
    ELSE -1

RECURSIVE percent_encode(_, _)
\* percent_encode(bytes, set).to_string(): a byte of the set becomes %XX, any
\* other byte is copied.
percent_encode(bytes, set) ==
    IF bytes = <<>> THEN <<>>
    ELSE (IF Head(bytes) \in set
          THEN <<PERCENT, HexDigit(Head(bytes) \div 16), HexDigit(Head(bytes) % 16)>>
          ELSE <<Head(bytes)>>)
         \o percent_encode(Tail(bytes), set)

RECURSIVE percent_decode(_)
\* percent_decode(bytes).if_any().map_or(Borrowed(bytes), Owned): '%' followed by
\* two hexadecimal digits becomes the byte they denote; every other byte, a '%'
\* not followed by two hexadecimal digits included, is copied.  When nothing was
\* decoded the input itself is the result, which is the same bytes.
percent_decode(bytes) ==
    IF bytes = <<>> THEN <<>>
    ELSE IF /\ Head(bytes) = PERCENT
            /\ Len(bytes) >= 3
            /\ HexVal(bytes[2]) >= 0
            /\ HexVal(bytes[3]) >= 0
         THEN <<16 * HexVal(bytes[2]) + HexVal(bytes[3])>> \o percent_decode(SubSeq(bytes, 4, Len(bytes)))
         ELSE <<Head(bytes)>> \o percent_decode(Tail(bytes))

(***************************************************************************)
(* NaiveDateTime: a record [year, month, day, hour, minute, second]        *)
(***************************************************************************)

\* The separators of YYYY-MM-DDTHH:MM:SS.
HYPHEN == Ord("-")
LETTER_T == Ord("T")
COLON == Ord(":")

\* self.deletion_date.format("%Y-%m-%dT%H:%M:%S").to_string()
format_datetime(d) ==
    Flatten(<< ZeroPad(d.year, 4), <<HYPHEN>>, ZeroPad(d.month, 2), <<HYPHEN>>,
               ZeroPad(d.day, 2), <<LETTER_T>>, ZeroPad(d.hour, 2), <<COLON>>,
               ZeroPad(d.minute, 2), <<COLON>>, ZeroPad(d.second, 2) >>)

\* Whether s is digits at the positions of YYYY-MM-DDTHH:MM:SS, the separators
\* in between, and the fields in range.
IsDateTimeText(s) ==
    /\ Len(s) = 19
    /\ \A i \in {1, 2, 3, 4, 6, 7, 9, 10, 12, 13, 15, 16, 18, 19} : IsDigit(s[i])
    /\ s[5] = HYPHEN /\ s[8] = HYPHEN /\ s[11] = LETTER_T
    /\ s[14] = COLON /\ s[17] = COLON
    /\ ParseNat(SubSeq(s, 6, 7)) \in 1..12
    /\ ParseNat(SubSeq(s, 9, 10)) \in 1..31
    /\ ParseNat(SubSeq(s, 12, 13)) \in 0..23
    /\ ParseNat(SubSeq(s, 15, 16)) \in 0..59
    /\ ParseNat(SubSeq(s, 18, 19)) \in 0..59

\* NaiveDateTime::from_str(s): Ok with the date, or Err.
NaiveDateTime_from_str(s) ==
    IF IsDateTimeText(s)
    THEN [tag |-> "Ok",
          val |-> [year   |-> ParseNat(SubSeq(s, 1, 4)),   month  |-> ParseNat(SubSeq(s, 6, 7)),
                   day    |-> ParseNat(SubSeq(s, 9, 10)),  hour   |-> ParseNat(SubSeq(s, 12, 13)),
                   minute |-> ParseNat(SubSeq(s, 15, 16)), second |-> ParseNat(SubSeq(s, 18, 19))]]
    ELSE [tag |-> "Err"]

(***************************************************************************)
(* The INI text of a metadata file (the ini crate, used through            *)
(* Ini::new / with_section / set / write_to and Ini::load_from_str /       *)
(* section / get).  A document is a sequence of sections                   *)
(* [name, props], props a sequence of [key, value]; its text is one        *)
(* "[name]" line per section followed by one "key=value" line per          *)
(* property.                                                               *)
(***************************************************************************)

\* The characters of the INI syntax.
EQUALS == Ord("=")
OPEN_BRACKET == Ord("[")
CLOSE_BRACKET == Ord("]")
SEMICOLON == Ord(";")
HASH == Ord("#")

\* Ini::new().with_section(Some(name)).set(k1, v1).set(k2, v2)
Ini_with_section(name, k1, v1, k2, v2) ==
    << [name |-> name, props |-> << [key |-> k1, value |-> v1], [key |-> k2, value |-> v2] >>] >>

RECURSIVE Ini_props_text(_)
Ini_props_text(props) ==
    IF props = <<>> THEN <<>>
    ELSE Flatten(<<Head(props).key, <<EQUALS>>, Head(props).value, NEWLINE>>) \o Ini_props_text(Tail(props))

RECURSIVE Ini_write_to(_)
\* info.write_to(file): the text written.
Ini_write_to(doc) ==
    IF doc = <<>> THEN <<>>
    ELSE Flatten(<<<<OPEN_BRACKET>>, Head(doc).name, <<CLOSE_BRACKET>>, NEWLINE>>)
         \o Ini_props_text(Head(doc).props) \o Ini_write_to(Tail(doc))

\* Space, tab and carriage return.
Blank == {32, 9, 13}

RECURSIVE Trim(_)
\* s without its leading and trailing blanks.
Trim(s) ==
    IF s = <<>> THEN s
    ELSE IF Head(s) \in Blank THEN Trim(Tail(s))
    ELSE IF s[Len(s)] \in Blank THEN Trim(SubSeq(s, 1, Len(s) - 1))
    ELSE s

\* doc with [key, value] added to its last section.
Ini_add_prop(doc, key, value) ==
    [doc EXCEPT ![Len(doc)].props = Append(@, [key |-> key, value |-> value])]

RECURSIVE Ini_parse_lines(_, _)
\* The lines of a text read in order into doc: a blank line or a comment is
\* skipped, "[name]" opens a section, "key=value" (or "key:value") adds a
\* property to the open section; any other line is a parse error.
Ini_parse_lines(lines, doc) ==
    IF lines = <<>> THEN [tag |-> "Ok", val |-> doc]
    ELSE LET line == Trim(Head(lines))
             close == FirstIn(line, {CLOSE_BRACKET})
             delim == FirstIn(line, {EQUALS, COLON})
         IN  IF line = <<>> \/ line[1] \in {SEMICOLON, HASH}
             THEN Ini_parse_lines(Tail(lines), doc)
             ELSE IF line[1] = OPEN_BRACKET
             THEN IF close = 0 THEN [tag |-> "Err"]
                  ELSE Ini_parse_lines(Tail(lines),
                                       Append(doc, [name |-> SubSeq(line, 2, close - 1), props |-> <<>>]))
             ELSE IF delim = 0 THEN [tag |-> "Err"]
                  ELSE Ini_parse_lines(Tail(lines),
                                       Ini_add_prop(doc, Trim(SubSeq(line, 1, delim - 1)),
                                                    Trim(SubSeq(line, delim + 1, Len(line)))))

\* The general (unnamed) section every document starts with.
GeneralSection == [name |-> <<0>>, props |-> <<>>]

\* Ini::load_from_str(content)
Ini_load_from_str(content) == Ini_parse_lines(SplitOn(content, 10), <<GeneralSection>>)

\* res.section(Some(name)): the section's properties, or None.
Ini_section(doc, name) ==
    IF \E i \in 1..Len(doc) : doc[i].name = name
    THEN [tag |-> "Some", val |-> doc[CHOOSE i \in 1..Len(doc) : doc[i].name = name].props]
    ELSE [tag |-> "None"]

\* section.get(key): the value last set for key, or None.
Ini_get(props, key) ==
    IF \E i \in 1..Len(props) : props[i].key = key
    THEN [tag |-> "Some",
          val |-> props[CHOOSE i \in 1..Len(props) :
                            props[i].key = key /\ \A j \in (i+1)..Len(props) : props[j].key # key].value]
    ELSE [tag |-> "None"]

(***************************************************************************)
(* TrashInfo                                                               *)
(***************************************************************************)

\* The section and the keys of a metadata file.
TRASH_INFO == Lit(<<"T", "r", "a", "s", "h", " ", "I", "n", "f", "o">>)
PATH_KEY == Lit(<<"P", "a", "t", "h">>)
DELETION_DATE_KEY == Lit(<<"D", "e", "l", "e", "t", "i", "o", "n", "D", "a", "t", "e">>)

\* TrashInfo::with_delete_datetime(internal, path, deletion_date)
with_delete_datetime(internal, path, deletion_date) ==
    [internal_filename |-> internal, path |-> path, deletion_date |-> deletion_date]

\* self.write_infofile(file): the text written to the file.
write_infofile(self) ==
    LET percent_path == percent_encode(self.path, DEFAULT_ENCODE_SET)
        deletion_datetime == format_datetime(self.deletion_date)
    IN  Ini_write_to(Ini_with_section(TRASH_INFO,
                                      PATH_KEY, percent_path,
                                      DELETION_DATE_KEY,
                                      deletion_datetime))

\* TrashInfo::from_filename_and_content(filename, content): Ok with the record,
\* Err with a ParseTrashInfoError, or a panic where the code unwraps an Err.
from_filename_and_content(filename, content) ==
    LET res == Ini_load_from_str(content)
    IN  IF res.tag = "Err" THEN [tag |-> "Err", err |-> "ParseError"]
        ELSE
        LET section == Ini_section(res.val, TRASH_INFO)
        IN  IF section.tag = "None" THEN [tag |-> "Err", err |-> "MissingSection"]
            ELSE
            LET path == Ini_get(section.val, PATH_KEY)
            IN  IF path.tag = "None" THEN [tag |-> "Err", err |-> "MissingKey"]
                ELSE
                LET decoded == percent_decode(path.val)
                    deletion_datetime ==
                        Ini_get(section.val, DELETION_DATE_KEY)
                IN  IF deletion_datetime.tag = "None" THEN [tag |-> "Err", err |-> "MissingKey"]
                    ELSE
                    LET parsed == NaiveDateTime_from_str(deletion_datetime.val)
                    IN  IF parsed.tag = "Err" THEN [tag |-> "Panic"]
                        ELSE [tag |-> "Ok", val |-> with_delete_datetime(filename, decoded, parsed.val)]

(***************************************************************************)
(* Paths (std::path)                                                       *)
(***************************************************************************)

SLASH == Ord("/")
DOT == Ord(".")

\* The root directory.
RootDir == <<SLASH>>

\* dir.join(name)
join(dir, name) == IF dir = RootDir THEN dir \o name ELSE dir \o <<SLASH>> \o name

\* The directory a path is in.
parent(p) ==
    LET i == LastIndexOf(p, SLASH)
    IN  IF i <= 1 THEN RootDir ELSE SubSeq(p, 1, i - 1)

\* The last component of a path, as written.
last_component(p) == SubSeq(p, LastIndexOf(p, SLASH) + 1, Len(p))

\* path.file_name(): the last component, None when the path ends in ".." or is
\* the root.
file_name(p) ==
    IF last_component(p) = <<>> \/ last_component(p) = <<DOT, DOT>>
    THEN [tag |-> "None"]
    ELSE [tag |-> "Some", val |-> last_component(p)]

\* path.file_stem(): the file name without its last extension: the whole name
\* when it holds no '.' or only a leading one, else what comes before the final
\* '.'.
file_stem(p) ==
    LET name == last_component(p)
        i == LastIndexOf(name, DOT)
    IN  IF i <= 1 THEN name ELSE SubSeq(name, 1, i - 1)

\* info_path.set_file_name(filename)
set_file_name(p, filename) == join(parent(p), filename)

RECURSIVE ancestors(_)
\* A directory and every directory above it.
ancestors(dir) == IF dir = RootDir THEN {RootDir} ELSE {dir} \cup ancestors(parent(dir))

(***************************************************************************)
(* The file system: fs.dirs is the set of directories, fs.files maps the   *)
(* path of each regular file to its content.                               *)
(***************************************************************************)

exists(fs, p) == p \in fs.dirs \/ p \in DOMAIN fs.files

is_dir(fs, p) == p \in fs.dirs

\* A faulty variant of create_new: create(true) with truncate, which opens a
\* file that is already there and empties it.
create_truncating(fs, p) ==
    IF parent(p) \notin fs.dirs THEN [res |-> "NotFound", fs |-> fs]
    ELSE [res |-> "Ok", fs |-> [fs EXCEPT !.files = (p :> <<>>) @@ @]]

\* OpenOptions::new().write(true).create_new(true).open(path): the outcome and
\* the file system after it.  The file is created, empty, only when the
\* directory is there and nothing has the name.
create_new(fs, p) ==
    IF parent(p) \notin fs.dirs THEN [res |-> "NotFound", fs |-> fs]
    ELSE IF exists(fs, p) THEN [res |-> "AlreadyExists", fs |-> fs]
    ELSE [res |-> "Ok", fs |-> [fs EXCEPT !.files = (p :> <<>>) @@ @]]

\* create_dir_all(dir): dir and its missing ancestors are created; nothing
\* changes when they exist.
create_dir_all(fs, dir) == [fs EXCEPT !.dirs = @ \cup ancestors(dir)]

\* A faulty variant of write_file: the text never reaches the file.
write_lost(fs, p, text) == fs

\* A write of text through the handle of the file opened at p.
write_file(fs, p, text) == [fs EXCEPT !.files = (p :> text) @@ @]

\* path.canonicalize(): the absolute path of an existing file or directory.
canonicalize(fs, p) ==
    IF exists(fs, p) THEN [tag |-> "Ok", val |-> p] ELSE [tag |-> "Err"]

\* A faulty variant of fs_move: the options say overwrite = true, and an entry
\* at dest is replaced by the item moved.
fs_move_overwriting(fs, src, dest) ==
    IF ~exists(fs, src) THEN [res |-> "Other", fs |-> fs]
    ELSE IF parent(dest) \notin fs.dirs THEN [res |-> "NotFound", fs |-> fs]
    ELSE IF is_dir(fs, src)
    THEN [res |-> "Ok",
          fs  |-> [dirs  |-> (fs.dirs \ {src}) \cup {dest},
                   files |-> [q \in (DOMAIN fs.files) \ {dest} |-> fs.files[q]]]]
    ELSE [res |-> "Ok",
          fs  |-> [dirs  |-> fs.dirs \ {dest},
                   files |-> (dest :> fs.files[src]) @@ [q \in (DOMAIN fs.files) \ {src} |-> fs.files[q]]]]

\* fs_extra's move_file / move_dir with overwrite = false, skip_exist = false
\* (lines 230-239): the item at src is relocated to dest.  The move fails with
\* kind NotFound when the directory of dest is missing (the case lines 252-254
\* recover from) and with AlreadyExists when dest is taken, and then changes
\* nothing.
fs_move(fs, src, dest) ==
    IF ~exists(fs, src) THEN [res |-> "Other", fs |-> fs]
    ELSE IF parent(dest) \notin fs.dirs THEN [res |-> "NotFound", fs |-> fs]
    ELSE IF exists(fs, dest) THEN [res |-> "AlreadyExists", fs |-> fs]
    ELSE IF is_dir(fs, src)
    THEN [res |-> "Ok", fs |-> [fs EXCEPT !.dirs = (@ \ {src}) \cup {dest}]]
    ELSE [res |-> "Ok",
          fs  |-> [fs EXCEPT !.files =
                      (dest :> fs.files[src]) @@ [q \in (DOMAIN @) \ {src} |-> @[q]]]]

\* move_to_trash_decision(src_path, dest_path): a directory goes through
\* move_dir, anything else through move_file.
move_to_trash_decision(fs, src_path, dest_path) ==
    IF is_dir(fs, src_path) THEN fs_move(fs, src_path, dest_path)
    ELSE fs_move(fs, src_path, dest_path)

(***************************************************************************)
(* The world the calls run in                                              *)
(***************************************************************************)

\* The processes that call move_to_trash.
Procs == {1, 2}

\* The calls of move_to_trash made in a run, over all processes.
MaxCalls == 3

\* The file-system calls of a run that the environment fails for a reason of
\* its own (SpecFault).
MaxFaults == 1

\* base_dirs.get_data_home()
xdg_data_home == Lit(<<"/", "h">>)

trash_dir == join(xdg_data_home, Lit(<<"T", "r", "a", "s", "h">>))
info_dir == Lit(<<"i", "n", "f", "o">>)
trash_info_dir == join(trash_dir, info_dir)
trash_dir_store_files == join(trash_dir, Lit(<<"f", "i", "l", "e", "s">>))
info_filename_ext == Lit(<<".", "t", "r", "a", "s", "h", "i", "n", "f", "o">>)

\* The items a call may be asked to trash: a file, a directory of the same
\* name elsewhere, a file whose name is the first one with ".2" added, and a
\* path with no last segment.
FileA == Lit(<<"/", "1", "/", "a">>)
DirA == Lit(<<"/", "2", "/", "a">>)
FileA2 == Lit(<<"/", "1", "/", "a", ".", "2">>)
NoName == Lit(<<"/", "1", "/", ".", ".">>)
Paths == {FileA, DirA, FileA2, NoName}

\* The items trashed in the runs with an environment that injects failures.
FaultPaths == {FileA, DirA}

\* The values Local::now() may give.
Date1 == [year |-> 2019, month |-> 1, day |-> 2, hour |-> 3, minute |-> 4, second |-> 5]
Date2 == [year |-> 987, month |-> 12, day |-> 31, hour |-> 23, minute |-> 59, second |-> 0]
Dates == {Date1, Date2}

\* The time of the calls.
Clock == {Date1}

\* The file system with the items to trash and no trash store.
NoStore ==
    [dirs  |-> {RootDir, parent(FileA), parent(DirA), xdg_data_home, DirA},
     files |-> (FileA :> Lit(<<"x">>)) @@ (FileA2 :> Lit(<<"y">>))]

\* ... with an empty trash store.
EmptyStore == create_dir_all(create_dir_all(NoStore, trash_info_dir), trash_dir_store_files)

\* ... with a trash store that holds content named "a" and no metadata for it.
OrphanStore == write_file(EmptyStore, join(trash_dir_store_files, Lit(<<"a">>)), Lit(<<"o">>))

InitialStores == {NoStore, EmptyStore, OrphanStore}

VARIABLES
    fs,               \* the file system
    fs0,              \* the file system the run started with
    calls,            \* the number of move_to_trash calls started
    faults,           \* the number of times the environment has interfered
    pc,               \* pc[p]: where process p is in its call
    path,             \* path[p]: the argument of p's call
    duplicates,       \* duplicates[p]: reserve_filename's counter
    info_path,        \* info_path[p]: reserve_filename's candidate
    file,             \* file[p]: the result of p's last exclusive create
    trash_info,       \* trash_info[p]: the TrashInfo of p's call
    result,           \* result[p]: what p's call gave its caller
    trace,            \* trace[p]: the file-system calls of p's call, in order
    reserved,         \* the reservations that returned Ok, in order
    codec             \* the state of a metadata round trip

vars == <<fs, fs0, calls, faults, pc, path, duplicates, info_path, file, trash_info, result,
          trace, reserved, codec>>

procvars == <<pc, path, duplicates, info_path, file, trash_info, result, trace>>

NoResult == [tag |-> "None"]
NoInfo == [tag |-> "None"]
CodecIdle == [stage |-> "idle"]

\* The environment fails the file-system call of this step (f) or lets it run.
Inject(f) ==
    /\ f => faults < MaxFaults
    /\ faults' = IF f THEN faults + 1 ELSE faults

\* An entry of trace[p]: the call made, its result, and whether it changed
\* the file system.
Event(op, res, before, after) == [op |-> op, res |-> res, changed |-> before # after]

Init ==
    /\ fs \in InitialStores
    /\ fs0 = fs
    /\ calls = 0
    /\ faults = 0
    /\ pc = [p \in Procs |-> "idle"]
    /\ path = [p \in Procs |-> <<>>]
    /\ duplicates = [p \in Procs |-> 1]
    /\ info_path = [p \in Procs |-> <<>>]
    /\ file = [p \in Procs |-> "None"]
    /\ trash_info = [p \in Procs |-> NoInfo]
    /\ result = [p \in Procs |-> NoResult]
    /\ trace = [p \in Procs |-> <<>>]
    /\ reserved = <<>>
    /\ codec = CodecIdle

(***************************************************************************)
(* reserve_filename                                                        *)
(***************************************************************************)

\* A faulty variant of candidate: the name is built with the counter as it was
\* before the collision was counted.
candidate_stale(base_file, n) ==
    IF n = 1 THEN base_file \o info_filename_ext
    ELSE Flatten(<<base_file, <<DOT>>, to_string(n - 1), info_filename_ext>>)

\* The candidate name for a counter: <base>.trashinfo for 1 (lines 116-118),
\* <base>.<counter>.trashinfo above (lines 141-147).
candidate(base_file, n) ==
    IF n = 1 THEN base_file \o info_filename_ext
    ELSE Flatten(<<base_file, <<DOT>>, to_string(n), info_filename_ext>>)

\* A faulty variant of advance: every failed create counts as a collision.
advance_on_any_error(res, n) == IF res # "Ok" THEN n + 1 ELSE n

\* duplicates after the match on the result of a create (lines 137-172): only
\* the AlreadyExists arm counts.
advance(res, n) == IF res = "AlreadyExists" THEN n + 1 ELSE n

\* A faulty variant of match_arm: no arm of its own for the other errors,
\* which are taken for a missing directory.
match_arm_no_default(res) ==
    IF res \in {"Ok", "AlreadyExists"} THEN res ELSE "NotFound"

\* The arm of the match on the result of a create (lines 135-172): Ok,
\* AlreadyExists, NotFound, or "_" for any other error.
match_arm(res) ==
    IF res \in {"Ok", "AlreadyExists", "NotFound"} THEN res ELSE "_"

\* Whether q is inside a call.  Calls that run at the same time are on
\* different items: a call starts only on an item no call in flight is on.
InFlight(q) == pc[q] \notin {"idle", "done"}

\* move_to_trash(path) is called and reserve_filename runs up to its first
\* exclusive create: the data home is looked up (a failure panics), the path's
\* file name is taken (a path without one panics) and the first candidate is
\* built.
reserve_filename_begin(p, arg, xdg_fails) ==
    /\ pc[p] \in {"idle", "done"}
    /\ Inject(xdg_fails)
    /\ calls < MaxCalls
    /\ \A q \in Procs \ {p} : InFlight(q) => path[q] # arg
    /\ calls' = calls + 1
    /\ path' = [path EXCEPT ![p] = arg]
    /\ duplicates' = [duplicates EXCEPT ![p] = 1]
    /\ file' = [file EXCEPT ![p] = "None"]
    /\ trash_info' = [trash_info EXCEPT ![p] = NoInfo]
    /\ trace' = [trace EXCEPT ![p] = <<>>]
    /\ IF xdg_fails
       THEN /\ pc' = [pc EXCEPT ![p] = "done"]
            /\ result' = [result EXCEPT ![p] = [tag |-> "Panic", at |-> "xdg"]]
            /\ info_path' = [info_path EXCEPT ![p] = <<>>]
       ELSE IF file_name(arg).tag = "None"
       THEN /\ pc' = [pc EXCEPT ![p] = "done"]
            /\ result' = [result EXCEPT ![p] = [tag |-> "Panic", at |-> "file_name"]]
            /\ info_path' = [info_path EXCEPT ![p] = <<>>]
       ELSE /\ pc' = [pc EXCEPT ![p] = "open"]
            /\ result' = [result EXCEPT ![p] = NoResult]
            /\ info_path' = [info_path EXCEPT ![p] =
                                join(trash_info_dir, candidate(file_name(arg).val, 1))]
    /\ UNCHANGED <<fs, fs0, reserved, codec>>

\* One exclusive create of the candidate and the match on its result (lines
\* 128-131, 151-154, 164-167, then 135-181): Ok ends the loop and returns the
\* file and its path; AlreadyExists advances the counter and renames the
\* candidate; NotFound goes on to create the directory; any other error ends
\* the loop and is returned.
reserve_filename_open(p, denied) ==
    /\ pc[p] = "open"
    /\ Inject(denied)
    /\ LET r == IF denied THEN [res |-> "PermissionDenied", fs |-> fs]
                ELSE create_new(fs, info_path[p])
       IN  /\ fs' = r.fs
           /\ file' = [file EXCEPT ![p] = r.res]
           /\ trace' = [trace EXCEPT ![p] = Append(@, Event("open", r.res, fs, r.fs))]
           /\ IF match_arm(r.res) = "Ok"
              THEN /\ pc' = [pc EXCEPT ![p] = "canonicalize"]
                   /\ reserved' = Append(reserved,
                                         [proc |-> p, base |-> file_name(path[p]).val,
                                          info_path |-> info_path[p]])
                   /\ UNCHANGED <<duplicates, info_path, result>>
              ELSE IF match_arm(r.res) = "AlreadyExists"
              THEN /\ duplicates' = [duplicates EXCEPT ![p] = advance(r.res, @)]
                   /\ info_path' = [info_path EXCEPT ![p] =
                         set_file_name(@, candidate(file_name(path[p]).val, advance(r.res, duplicates[p])))]
                   /\ UNCHANGED <<pc, result, reserved>>
              ELSE IF match_arm(r.res) = "NotFound"
              THEN /\ pc' = [pc EXCEPT ![p] = "create_info_dir"]
                   /\ duplicates' = [duplicates EXCEPT ![p] = advance(r.res, @)]
                   /\ UNCHANGED <<info_path, result, reserved>>
              ELSE /\ pc' = [pc EXCEPT ![p] = "done"]
                   /\ result' = [result EXCEPT ![p] = [tag |-> "Err", err |-> r.res]]
                   /\ UNCHANGED <<duplicates, info_path, reserved>>
    /\ UNCHANGED <<fs0, calls, path, trash_info, codec>>

\* The NotFound arm (lines 156-162): create_dir_all of <trash_dir>/info, a
\* failure of which panics; the create is then tried again with the candidate
\* as it is.
reserve_filename_create_dir(p, fails) ==
    /\ pc[p] = "create_info_dir"
    /\ Inject(fails)
    /\ IF fails
       THEN /\ pc' = [pc EXCEPT ![p] = "done"]
            /\ result' = [result EXCEPT ![p] = [tag |-> "Panic", at |-> "create_info_dir"]]
            /\ trace' = [trace EXCEPT ![p] = Append(@, Event("create_info_dir", "Err", fs, fs))]
            /\ fs' = fs
       ELSE /\ pc' = [pc EXCEPT ![p] = "open"]
            /\ fs' = create_dir_all(fs, join(trash_dir, info_dir))
            /\ trace' = [trace EXCEPT ![p] =
                            Append(@, Event("create_info_dir", "Ok", fs, create_dir_all(fs, join(trash_dir, info_dir))))]
            /\ UNCHANGED result
    /\ UNCHANGED <<fs0, calls, path, duplicates, info_path, file, trash_info, reserved, codec>>

(***************************************************************************)
(* move_to_trash                                                           *)
(***************************************************************************)

\* A faulty variant of internal_filename_for_trash: the name is cut at its
\* first '.', which drops the duplicate counter with the extension.
internal_filename_first_dot(info_file_name) ==
    LET name == last_component(info_file_name)
        i == FirstIn(name, {DOT})
    IN  IF i <= 1 THEN name ELSE SubSeq(name, 1, i - 1)

\* internal_filename_for_trash (line 209): the stem of the reserved file's name.
internal_filename_for_trash(info_file_name) == file_stem(info_file_name)

\* trash_dest_file (line 222)
trash_dest_file(info_file_name) ==
    join(trash_dir_store_files, internal_filename_for_trash(info_file_name))

\* TrashFiles::new(trash_file, info_file)
TrashFiles(trash_file, info_file) == [trash_file |-> trash_file, info_file |-> info_file]

\* A faulty variant of retried: no failed move is retried.
retried_never(kind) == FALSE

\* A faulty variant of retried: every failed move is retried.
retried_any(kind) == TRUE

\* Whether a failed first move is answered by creating <trash_dir>/files and
\* moving again (the match of lines 251-260).
retried(kind) == kind = "NotFound"

\* Lines 209-214: the source path is canonicalized, a failure of which panics,
\* and the TrashInfo is built with the current local time.
move_to_trash_canonicalize(p, now) ==
    /\ pc[p] = "canonicalize"
    /\ LET c == canonicalize(fs, path[p])
       IN  /\ trace' = [trace EXCEPT ![p] = Append(@, Event("canonicalize", c.tag, fs, fs))]
           /\ IF c.tag = "Err"
              THEN /\ pc' = [pc EXCEPT ![p] = "done"]
                   /\ result' = [result EXCEPT ![p] = [tag |-> "Panic", at |-> "canonicalize"]]
                   /\ UNCHANGED trash_info
              ELSE /\ pc' = [pc EXCEPT ![p] = "write"]
                   /\ trash_info' = [trash_info EXCEPT ![p] =
                         [tag |-> "Some",
                          val |-> with_delete_datetime(internal_filename_for_trash(info_path[p]),
                                                       c.val, now)]]
                   /\ UNCHANGED result
    /\ UNCHANGED <<fs, fs0, calls, faults, path, duplicates, info_path, file, reserved, codec>>

\* Line 215: the record is written to the reserved file; a failed write panics.
move_to_trash_write(p, fails) ==
    /\ pc[p] = "write"
    /\ Inject(fails)
    /\ IF fails
       THEN /\ pc' = [pc EXCEPT ![p] = "done"]
            /\ result' = [result EXCEPT ![p] = [tag |-> "Panic", at |-> "write"]]
            /\ trace' = [trace EXCEPT ![p] = Append(@, Event("write", "Err", fs, fs))]
            /\ fs' = fs
       ELSE /\ pc' = [pc EXCEPT ![p] = "move"]
            /\ fs' = write_file(fs, info_path[p], write_infofile(trash_info[p].val))
            /\ trace' = [trace EXCEPT ![p] =
                  Append(@, Event("write", "Ok", fs,
                                  write_file(fs, info_path[p], write_infofile(trash_info[p].val))))]
            /\ UNCHANGED result
    /\ UNCHANGED <<fs0, calls, path, duplicates, info_path, file, trash_info, reserved, codec>>

\* Lines 243-260, first part: the move; Ok returns the two paths, an error
\* that is retried goes on to create the directory, any other is returned.
move_to_trash_move(p, denied) ==
    /\ pc[p] = "move"
    /\ Inject(denied)
    /\ LET r == IF denied THEN [res |-> "PermissionDenied", fs |-> fs]
                ELSE move_to_trash_decision(fs, path[p], trash_dest_file(info_path[p]))
       IN  /\ fs' = r.fs
           /\ trace' = [trace EXCEPT ![p] = Append(@, Event("move", r.res, fs, r.fs))]
           /\ IF r.res = "Ok"
              THEN /\ pc' = [pc EXCEPT ![p] = "done"]
                   /\ result' = [result EXCEPT ![p] =
                         [tag |-> "Ok",
                          val |-> TrashFiles(trash_dest_file(info_path[p]), info_path[p])]]
              ELSE IF retried(r.res)
              THEN /\ pc' = [pc EXCEPT ![p] = "create_files_dir"]
                   /\ UNCHANGED result
              ELSE /\ pc' = [pc EXCEPT ![p] = "done"]
                   /\ result' = [result EXCEPT ![p] = [tag |-> "Err", err |-> r.res]]
    /\ UNCHANGED <<fs0, calls, path, duplicates, info_path, file, trash_info, reserved, codec>>

\* Line 254: create_dir_all of <trash_dir>/files, a failure of which panics.
move_to_trash_create_dir(p, fails) ==
    /\ pc[p] = "create_files_dir"
    /\ Inject(fails)
    /\ IF fails
       THEN /\ pc' = [pc EXCEPT ![p] = "done"]
            /\ result' = [result EXCEPT ![p] = [tag |-> "Panic", at |-> "create_files_dir"]]
            /\ trace' = [trace EXCEPT ![p] = Append(@, Event("create_files_dir", "Err", fs, fs))]
            /\ fs' = fs
       ELSE /\ pc' = [pc EXCEPT ![p] = "retry"]
            /\ fs' = create_dir_all(fs, trash_dir_store_files)
            /\ trace' = [trace EXCEPT ![p] =
                  Append(@, Event("create_files_dir", "Ok", fs, create_dir_all(fs, trash_dir_store_files)))]
            /\ UNCHANGED result
    /\ UNCHANGED <<fs0, calls, path, duplicates, info_path, file, trash_info, reserved, codec>>

\* Lines 256 and 262-269: the move again; whatever it gives is returned.
move_to_trash_retry(p, denied) ==
    /\ pc[p] = "retry"
    /\ Inject(denied)
    /\ LET r == IF denied THEN [res |-> "PermissionDenied", fs |-> fs]
                ELSE move_to_trash_decision(fs, path[p], trash_dest_file(info_path[p]))
       IN  /\ fs' = r.fs
           /\ trace' = [trace EXCEPT ![p] = Append(@, Event("move", r.res, fs, r.fs))]
           /\ pc' = [pc EXCEPT ![p] = "done"]
           /\ result' = [result EXCEPT ![p] =
                 IF r.res = "Ok"
                 THEN [tag |-> "Ok", val |-> TrashFiles(trash_dest_file(info_path[p]), info_path[p])]
                 ELSE [tag |-> "Err", err |-> r.res]]
    /\ UNCHANGED <<fs0, calls, path, duplicates, info_path, file, trash_info, reserved, codec>>

(***************************************************************************)
(* Specifications                                                          *)
(***************************************************************************)

\* The calls of the processes, interleaved at each file-system call, every
\* file-system call doing what the state of the file system decides.
Next ==
    \E p \in Procs :
        \/ \E arg \in Paths : reserve_filename_begin(p, arg, FALSE)
        \/ reserve_filename_open(p, FALSE)
        \/ reserve_filename_create_dir(p, FALSE)
        \/ \E now \in Clock : move_to_trash_canonicalize(p, now)
        \/ move_to_trash_write(p, FALSE)
        \/ move_to_trash_move(p, FALSE)
        \/ move_to_trash_create_dir(p, FALSE)
        \/ move_to_trash_retry(p, FALSE)

Spec == Init /\ [][Next]_vars

\* The same with an environment that may also fail any file-system call for a
\* reason of its own (no data home, permission denied, a full disk).
NextFault ==
    \E p \in Procs, fault \in BOOLEAN :
        \/ \E arg \in FaultPaths : reserve_filename_begin(p, arg, fault)
        \/ reserve_filename_open(p, fault)
        \/ reserve_filename_create_dir(p, fault)
        \/ \E now \in Clock : move_to_trash_canonicalize(p, now)
        \/ move_to_trash_write(p, fault)
        \/ move_to_trash_move(p, fault)
        \/ move_to_trash_create_dir(p, fault)
        \/ move_to_trash_retry(p, fault)

SpecFault == Init /\ [][NextFault]_vars

\* Another agent of the trash store (one that empties or restores, see the
\* note of lines 205-206) removes <trash_dir>/info while it holds no entry.
agent_remove_info_dir ==
    /\ Inject(TRUE)
    /\ trash_info_dir \in fs.dirs
    /\ \A q \in DOMAIN fs.files : parent(q) # trash_info_dir
    /\ fs' = [fs EXCEPT !.dirs = @ \ {trash_info_dir}]
    /\ UNCHANGED <<fs0, calls, procvars, reserved, codec>>

\* The calls of the processes next to such an agent.
NextAgent ==
    \/ Next
    \/ agent_remove_info_dir

SpecAgent == Init /\ [][NextAgent]_vars

\* The calls of the processes for the two items of one base name, each
\* process, once inside the loop of reserve_filename (lines 134-174), going on
\* running: the loop has no suspension point, so a create or a directory
\* creation that is due is made.
NextLive ==
    \E p \in Procs :
        \/ \E arg \in FaultPaths : reserve_filename_begin(p, arg, FALSE)
        \/ reserve_filename_open(p, FALSE)
        \/ reserve_filename_create_dir(p, FALSE)
        \/ \E now \in Clock : move_to_trash_canonicalize(p, now)
        \/ move_to_trash_write(p, FALSE)
        \/ move_to_trash_move(p, FALSE)
        \/ move_to_trash_create_dir(p, FALSE)
        \/ move_to_trash_retry(p, FALSE)

SpecLive ==
    /\ Init
    /\ [][NextLive]_vars
    /\ \A p \in Procs :
          /\ WF_vars(reserve_filename_open(p, FALSE))
          /\ WF_vars(reserve_filename_create_dir(p, FALSE))

(***************************************************************************)
(* A metadata round trip: a record is built, written with write_infofile   *)
(* and read back with from_filename_and_content.                           *)
(***************************************************************************)

\* The bytes after the leading '/' of the paths tried.
MaxPathLen == 3

\* The bytes the paths tried are made of: plain, '%', hexadecimal digits, a
\* byte that is no text, a space and a delimiter of the INI text.
PathBytes == {Ord("a"), Ord("%"), Ord("4"), Ord("1"), 255, Ord(" "), Ord("=")}

RECURSIVE ByteStrings(_)
\* The byte strings over PathBytes of length n.
ByteStrings(n) ==
    IF n = 0 THEN {<<>>}
    ELSE {<<b>> \o s : b \in PathBytes, s \in ByteStrings(n - 1)}

\* The absolute paths tried.
CodecPaths == {RootDir \o s : s \in UNION {ByteStrings(n) : n \in 0..MaxPathLen}}

\* The name a metadata file is read under.
CodecFilename == Lit(<<"a", ".", "t", "r", "a", "s", "h", "i", "n", "f", "o">>)

codec_new(P, T) ==
    /\ codec.stage = "idle"
    /\ codec' = [stage |-> "record", info |-> with_delete_datetime(Lit(<<"a">>), P, T)]
    /\ UNCHANGED <<fs, fs0, calls, faults, procvars, reserved>>

codec_write ==
    /\ codec.stage = "record"
    /\ codec' = [stage |-> "written", info |-> codec.info, text |-> write_infofile(codec.info)]
    /\ UNCHANGED <<fs, fs0, calls, faults, procvars, reserved>>

codec_parse ==
    /\ codec.stage = "written"
    /\ codec' = [stage |-> "parsed", info |-> codec.info, text |-> codec.text,
                 parsed |-> from_filename_and_content(CodecFilename, codec.text)]
    /\ UNCHANGED <<fs, fs0, calls, faults, procvars, reserved>>

InitCodec == Init /\ fs = NoStore

NextCodec ==
    \/ \E P \in CodecPaths, T \in Dates : codec_new(P, T)
    \/ codec_write
    \/ codec_parse

SpecCodec == InitCodec /\ [][NextCodec]_vars

(***************************************************************************)
(* The public functions of TrashInfo called on their own:                  *)
(* from_filename_and_content applied to a file name and a text of the      *)
(* caller's, and the two constructors.                                     *)
(***************************************************************************)

\* The lines of the texts tried, at most.
MaxLines == 3

\* The lines the texts tried are made of: the section header, another header,
\* a header that is not closed, a Path with an absolute and one with a
\* relative value, a DeletionDate in the form YYYY-MM-DDTHH:MM:SS and one with
\* the date alone.
ParseLines ==
    { Flatten(<<<<OPEN_BRACKET>>, TRASH_INFO, <<CLOSE_BRACKET>>>>),
      Lit(<<"[", "O", "t", "h", "e", "r", "]">>),
      <<OPEN_BRACKET>> \o TRASH_INFO,
      Flatten(<<PATH_KEY, <<EQUALS>>, Lit(<<"/", "a">>)>>),
      Flatten(<<PATH_KEY, <<EQUALS>>, Lit(<<"a">>)>>),
      Flatten(<<DELETION_DATE_KEY, <<EQUALS>>, format_datetime(Date1)>>),
      Flatten(<<DELETION_DATE_KEY, <<EQUALS>>, SubSeq(format_datetime(Date1), 1, 10)>>) }

RECURSIVE ParseTexts(_)
\* The texts of n lines of ParseLines, each line ended by a newline.
ParseTexts(n) ==
    IF n = 0 THEN {<<>>}
    ELSE {Flatten(<<line, NEWLINE, rest>>) : line \in ParseLines, rest \in ParseTexts(n - 1)}

\* The file names a caller reads a metadata file under: the name of the file,
\* its whole path (as tests::test_full_trash passes it), and an empty name.
ParseFilenames == {CodecFilename, join(trash_info_dir, CodecFilename), <<>>}

parse_input(filename, content) ==
    /\ codec.stage = "idle"
    /\ codec' = [stage |-> "input", filename |-> filename, text |-> content]
    /\ UNCHANGED <<fs, fs0, calls, faults, procvars, reserved>>

parse_read ==
    /\ codec.stage = "input"
    /\ codec' = [stage |-> "read", filename |-> codec.filename, text |-> codec.text,
                 parsed |-> from_filename_and_content(codec.filename, codec.text)]
    /\ UNCHANGED <<fs, fs0, calls, faults, procvars, reserved>>

\* The paths a caller builds a record with: an absolute and a relative one.
RecordPaths == {Lit(<<"/", "a">>), Lit(<<"a">>)}

\* TrashInfo::new(internal, path), called when the local time is now.
new(internal, P, now) == with_delete_datetime(internal, P, now)

\* A caller builds a record with one of the two public constructors.
record_new(internal, P, now) ==
    /\ codec.stage = "idle"
    /\ codec' = [stage |-> "built", by |-> "new", info |-> new(internal, P, now)]
    /\ UNCHANGED <<fs, fs0, calls, faults, procvars, reserved>>

record_with_delete_datetime(internal, P, deletion_date) ==
    /\ codec.stage = "idle"
    /\ codec' = [stage |-> "built", by |-> "with_delete_datetime",
                 info |-> with_delete_datetime(internal, P, deletion_date)]
    /\ UNCHANGED <<fs, fs0, calls, faults, procvars, reserved>>

InitParse == Init /\ fs = NoStore

NextParse ==
    \/ \E filename \in ParseFilenames, n \in 0..MaxLines :
           \E content \in ParseTexts(n) : parse_input(filename, content)
    \/ parse_read
    \/ \E internal \in ParseFilenames, P \in RecordPaths, now \in Clock :
           record_new(internal, P, now)
    \/ \E internal \in ParseFilenames, P \in RecordPaths, T \in Dates :
           record_with_delete_datetime(internal, P, T)

SpecParse == InitParse /\ [][NextParse]_vars

(***************************************************************************)
(* Properties                                                              *)
(***************************************************************************)

\* The suffix of a metadata file's name.
TrashinfoSuffix == Lit(<<".", "t", "r", "a", "s", "h", "i", "n", "f", "o">>)

\* The metadata file name the trash layout gives the k-th item of a base name:
\* <base>.trashinfo, then <base>.2.trashinfo, <base>.3.trashinfo, ...
NameFor(base, k) ==
    IF k = 1 THEN base \o TrashinfoSuffix
    ELSE Flatten(<<base, Lit(<<".">>), to_string(k), TrashinfoSuffix>>)

\* The entries of trace[p] of one kind of call, in order.
Events(p, op) == SelectSeq(trace[p], LAMBDA e : e.op = op)

\* The results of the exclusive creates of p's call, in order.
Opens(p) == Events(p, "open")

\* Whether p's call has its reservation behind it, with a file.
HasReserved(p) == \E i \in 1..Len(trace[p]) : trace[p][i] .op = "open" /\ trace[p][i].res = "Ok"

\* The base name of p's call.
BaseOf(p) == file_name(path[p]).val

\* C1: under every interleaving of the exclusive creates of concurrent calls,
\* every reservation returns a file (no call ends with an error or a panic of
\* reserve_filename), and no two reservations return the same metadata path.
C1_DistinctReservations ==
    /\ \A i, j \in 1..Len(reserved) :
          i # j => reserved[i].info_path # reserved[j].info_path
    /\ \A p \in Procs :
          /\ result[p].tag = "Err" => HasReserved(p)
          /\ result[p].tag = "Panic" => result[p].at \in {"file_name", "canonicalize"}

\* C1's case: two calls in flight for the same base name, both with their
\* reservation behind them, the second having collided with the file the first
\* created during the run.
C1_Witness ==
    /\ calls = 2
    /\ pc[1] = "canonicalize" /\ pc[2] = "canonicalize"
    /\ BaseOf(1) = BaseOf(2)
    /\ \E i \in 1..Len(trace[2]) : trace[2][i].res = "AlreadyExists"
    /\ \E i \in 1..Len(trace[1]) : trace[1][i].res = "NotFound"
    /\ \E i \in 1..Len(trace[2]) : trace[2][i].res = "NotFound"

\* The number of reservations for base among the first i.
Rank(base, i) == Cardinality({j \in 1..i : reserved[j].base = base})

\* The metadata paths of the family of a base name: <base>.trashinfo and
\* <base>.<k>.trashinfo.
Family(base) == {join(trash_info_dir, NameFor(base, k)) : k \in 1..(MaxCalls + 2)}

\* Whether a run is one process calling in sequence.
Sequential == path[2] = <<>>

\* C2 as stated: N reservations in sequence for one base name return
\* <base>.trashinfo, <base>.2.trashinfo, ..., <base>.N.trashinfo in that order,
\* whatever else the info directory holds.
C2_AsStated ==
    Sequential =>
        \A i \in 1..Len(reserved) :
            reserved[i].info_path =
                join(trash_info_dir, NameFor(reserved[i].base, Rank(reserved[i].base, i)))

\* Whether the names of base's family have only ever been taken by
\* reservations for base itself.
FamilyOwn(base) ==
    LET family == Family(base)
    IN  /\ \A q \in DOMAIN fs0.files : q \notin family
        /\ \A j \in 1..Len(reserved) :
              reserved[j].base # base => reserved[j].info_path \notin family

\* C2 (amended): in an info directory where no name of the base's family is
\* taken by anything but these reservations, the k-th reservation for a base
\* name returns <base>.trashinfo for k = 1 and <base>.<k>.trashinfo above, under
\* every interleaving.
C2_CountedNames ==
    \A i \in 1..Len(reserved) :
        FamilyOwn(reserved[i].base) =>
            reserved[i].info_path =
                join(trash_info_dir, NameFor(reserved[i].base, Rank(reserved[i].base, i)))

\* C2's case: three reservations for one base name, in sequence.
C2_Witness ==
    /\ Sequential
    /\ Len(reserved) = 3
    /\ \A i \in 1..3 : reserved[i].base = reserved[1].base

\* C3: what is read back from the text written for a record is that record's
\* path, byte for byte, and its date.
C3_RoundTrip ==
    codec.stage = "parsed" =>
        /\ codec.parsed.tag = "Ok"
        /\ codec.parsed.val.path = codec.info.path
        /\ codec.parsed.val.deletion_date = codec.info.deletion_date

\* C4: a call that has ended has given its caller Ok with the two paths or Err
\* with an error.
C4_OkOrErr ==
    \A p \in Procs : pc[p] = "done" => result[p].tag \in {"Ok", "Err"}

\* C5: a call that ended because the source path could not be canonicalized
\* has changed nothing in the file system.
C5_NoMutationBeforeCanonicalize ==
    \A p \in Procs :
        (pc[p] = "done" /\ result[p].tag = "Panic" /\ result[p].at = "canonicalize")
            => \A i \in 1..Len(trace[p]) : ~trace[p][i].changed

\* C6: the two paths of a successful call share one name: the content is at
\* <trash_dir>/files/<name>, the metadata at <trash_dir>/info/<name>.trashinfo,
\* and <name> is the base name, or the base name with the duplicate counter.
C6_SharedName ==
    \A p \in Procs :
        result[p].tag = "Ok" =>
            LET name == last_component(result[p].val.trash_file)
            IN  /\ result[p].val.trash_file = join(trash_dir_store_files, name)
                /\ result[p].val.info_file = join(trash_info_dir, name \o info_filename_ext)
                /\ name \o info_filename_ext = NameFor(BaseOf(p), duplicates[p])
                /\ exists(fs, result[p].val.trash_file)
                /\ exists(fs, result[p].val.info_file)

\* C6's case: a second trashing of the same base name has succeeded, under
\* the name with the suffix 2.
C6_Witness ==
    \E p \in Procs :
        /\ result[p].tag = "Ok"
        /\ duplicates[p] = 2
        /\ result[p].val.trash_file = join(trash_dir_store_files, BaseOf(p) \o Lit(<<".", "2">>))
        /\ result[p].val.info_file =
              join(trash_info_dir, Flatten(<<BaseOf(p), Lit(<<".", "2">>), info_filename_ext>>))

\* Whether a path is an entry of the trash store's info/ or files/.
InStore(q) == parent(q) \in {trash_info_dir, trash_dir_store_files}

\* C7: no step of any call removes or changes an entry of info/ or files/:
\* each stays, with its content, the one exception being the call that has
\* just reserved a metadata file, still empty, and writes its record to it.
C7_NoOverwrite ==
    [][ /\ \A q \in DOMAIN fs.files :
              InStore(q) =>
                  /\ q \in DOMAIN fs'.files
                  /\ \/ fs'.files[q] = fs.files[q]
                     \/ /\ fs.files[q] = <<>>
                        /\ \E p \in Procs : pc[p] = "write" /\ pc'[p] = "move" /\ info_path[p] = q
        /\ \A d \in fs.dirs : InStore(d) => d \in fs'.dirs
      ]_vars

\* C7's case: the store held metadata and content for the base name, with the
\* record written, and a further call for that base name has succeeded under
\* another name.
C7_Witness ==
    \E p \in Procs :
        /\ result[p].tag = "Ok"
        /\ duplicates[p] >= 2
        /\ LET first == join(trash_info_dir, NameFor(BaseOf(p), 1))
           IN  /\ first \in DOMAIN fs.files
               /\ fs.files[first] # <<>>
               /\ exists(fs, join(trash_dir_store_files, BaseOf(p)))

\* The results of the moves of p's call, in order.
Moves(p) == Events(p, "move")

\* The creations of <trash_dir>/files of p's call.
FilesDirCreations(p) == Events(p, "create_files_dir")

\* Whether p's call wrote its record.
Wrote(p) == \E i \in 1..Len(trace[p]) : trace[p][i].op = "write" /\ trace[p][i].res = "Ok"

\* C8: a call that ends with the error of a failed move, its record written,
\* leaves the metadata file in info/ with the record in it, and the error it
\* returns is that of its last move.
C8_NoRollback ==
    \A p \in Procs :
        (pc[p] = "done" /\ result[p].tag = "Err" /\ Wrote(p)) =>
            /\ info_path[p] \in DOMAIN fs.files
            /\ fs.files[info_path[p]] = write_infofile(trash_info[p].val)
            /\ Moves(p) # <<>>
            /\ result[p].err = Moves(p)[Len(Moves(p))].res

\* C8's case: the move failed again after <trash_dir>/files was created.
C8_Witness ==
    \E p \in Procs :
        /\ pc[p] = "done" /\ result[p].tag = "Err" /\ Wrote(p)
        /\ Len(Moves(p)) = 2
        /\ Len(FilesDirCreations(p)) = 1

Count(events, res) == Cardinality({i \in 1..Len(events) : events[i].res = res})

\* C10: the counter of a reservation is 1 plus its collisions and the
\* candidate is the name for that counter, so a reservation that finds
\* <trash_dir>/info missing creates it and goes on with the candidate it had:
\* without a collision it returns <base>.trashinfo.  It creates the directory
\* only after a create that found it missing, and no reservation enters that
\* arm while the directory exists.
C10_DirectoryRetry ==
    /\ [](\A p \in Procs :
            (pc[p] \notin {"idle"} /\ info_path[p] # <<>>) =>
                /\ duplicates[p] = 1 + Count(Opens(p), "AlreadyExists")
                /\ info_path[p] = join(trash_info_dir, NameFor(BaseOf(p), duplicates[p]))
                /\ \A i \in 1..Len(trace[p]) :
                      trace[p][i].op = "create_info_dir" =>
                          /\ i = 2
                          /\ trace[p][i].res = "Ok"
                          /\ trace[p][1] = [op |-> "open", res |-> "NotFound", changed |-> FALSE]
                /\ (pc[p] = "done" /\ Count(Opens(p), "NotFound") > 0) => HasReserved(p))
    /\ [][\A p \in Procs :
            (trash_info_dir \in fs.dirs /\ pc[p] # "create_info_dir")
                => pc'[p] # "create_info_dir"]_vars

\* C10's case: a reservation found <trash_dir>/info missing, created it and
\* returned <base>.trashinfo, and a later reservation by the same process
\* returned without creating the directory.
C10_Witness ==
    \E p \in Procs :
        /\ pc[p] = "canonicalize"
        /\ \E i \in 1..Len(reserved) :
              /\ i < Len(reserved)
              /\ reserved[i].proc = p
              /\ reserved[Len(reserved)].proc = p
              /\ reserved[i].info_path = join(trash_info_dir, NameFor(reserved[i].base, 1))
        /\ trash_info_dir \notin fs0.dirs
        /\ path[3 - p] = <<>>
        /\ Events(p, "create_info_dir") = <<>>

\* The creations of <trash_dir>/info of p's call.
InfoDirCreations(p) == Events(p, "create_info_dir")

\* C11: within one call the directory is created and the operation retried at
\* most once for <trash_dir>/info and at most once for <trash_dir>/files; a
\* create that still finds <trash_dir>/info missing after the directory was
\* created ends the reservation with an error.
C11_RecoveryOnce ==
    \A p \in Procs :
        /\ Len(InfoDirCreations(p)) <= 1
        /\ Len(FilesDirCreations(p)) <= 1
        /\ \A i \in 1..Len(trace[p]) :
              (/\ trace[p][i].op = "open" /\ trace[p][i].res = "NotFound"
               /\ \E j \in 1..(i - 1) : trace[p][j].op = "create_info_dir")
                  => (pc[p] = "done" /\ result[p].tag = "Err")

\* C12: a move attempted while <trash_dir>/files/<name> is occupied fails:
\* the step changes nothing in the file system (the entry at the destination
\* stays as it is, the source stays where it is) and the call ends with an
\* error.
C12_OccupiedDestination ==
    [][\A p \in Procs :
          (/\ pc[p] \in {"move", "retry"}
           /\ pc'[p] # pc[p]
           /\ exists(fs, join(trash_dir_store_files, file_stem(info_path[p]))))
              => /\ fs' = fs
                 /\ pc'[p] = "done"
                 /\ result'[p].tag = "Err"
      ]_vars

\* C12's case: the store held content under the name reserved, the call has
\* ended with the error of the move, the content is the one the store started
\* with and the source is where it was.
C12_Witness ==
    \E p \in Procs :
        /\ pc[p] = "done"
        /\ result[p] = [tag |-> "Err", err |-> "AlreadyExists"]
        /\ Len(Moves(p)) = 1
        /\ LET dest == join(trash_dir_store_files, file_stem(info_path[p]))
           IN  /\ dest \in DOMAIN fs0.files
               /\ dest \in DOMAIN fs.files
               /\ fs.files[dest] = fs0.files[dest]
        /\ path[p] \in DOMAIN fs.files
        /\ fs.files[path[p]] = fs0.files[path[p]]

\* Whether a text has a line that starts with the characters of t.
HasLine(text, t) ==
    \E i \in 1..Len(text) :
        /\ i = 1 \/ text[i - 1] = 10
        /\ i + Len(t) - 1 <= Len(text)
        /\ SubSeq(text, i, i + Len(t) - 1) = t

\* C13: reading a metadata file gives the caller a record or an error, for
\* every text: MissingSection without the section, MissingKey without Path or
\* DeletionDate, an error too when the DeletionDate is not in the form
\* YYYY-MM-DDTHH:MM:SS; the internal name of a record is the file name the
\* caller gave.
C13_RecordOrError ==
    codec.stage = "read" =>
        /\ codec.parsed.tag \in {"Ok", "Err"}
        /\ codec.parsed.tag = "Ok" => codec.parsed.val.internal_filename = codec.filename
        /\ ~HasLine(codec.text, Flatten(<<<<OPEN_BRACKET>>, TRASH_INFO, <<CLOSE_BRACKET>>>>))
              => codec.parsed.tag = "Err" /\ codec.parsed.err \in {"MissingSection", "ParseError"}
        /\ (\/ ~HasLine(codec.text, PATH_KEY \o <<EQUALS>>)
            \/ ~HasLine(codec.text, DELETION_DATE_KEY \o <<EQUALS>>))
              => /\ codec.parsed.tag = "Err"
                 /\ codec.parsed.err \in {"MissingSection", "MissingKey", "ParseError"}

\* Whether a record has an internal name that is not empty and holds no path
\* separator, and an absolute path.
ValidRecord(r) ==
    /\ r.internal_filename # <<>>
    /\ \A i \in 1..Len(r.internal_filename) : r.internal_filename[i] # SLASH
    /\ r.path # <<>>
    /\ r.path[1] = SLASH

\* C14: every TrashInfo there is (the one of a move_to_trash call, one built
\* with new or with_delete_datetime, one read from a text under the file name
\* the caller gave) has a non-empty internal name without path separator and
\* an absolute path.
C14_RecordInvariant ==
    /\ \A p \in Procs : trash_info[p].tag = "Some" => ValidRecord(trash_info[p].val)
    /\ codec.stage = "built" => ValidRecord(codec.info)
    /\ (codec.stage = "read" /\ codec.parsed.tag = "Ok") => ValidRecord(codec.parsed.val)

\* The results of an exclusive create that reserve_filename answers itself.
Handled == {"Ok", "AlreadyExists", "NotFound"}

\* C15: an exclusive create that fails with any other error is the last
\* file-system call of its call: no create and no directory creation follow,
\* no record is written and nothing is moved, the failed create changed
\* nothing, and the call returns that error.
C15_OtherErrorAborts ==
    \A p \in Procs :
        \A i \in 1..Len(trace[p]) :
            (trace[p][i].op = "open" /\ trace[p][i].res \notin Handled) =>
                /\ i = Len(trace[p])
                /\ ~trace[p][i].changed
                /\ pc[p] = "done"
                /\ result[p] = [tag |-> "Err", err |-> trace[p][i].res]
                /\ \A j \in 1..Len(trace[p]) : trace[p][j].op \in {"open", "create_info_dir"}
                /\ trash_info[p] = NoInfo

\* C15's case: after a collision, the create of the next candidate was denied
\* and the call has returned the error.
C15_Witness ==
    \E p \in Procs :
        /\ pc[p] = "done"
        /\ result[p] = [tag |-> "Err", err |-> "PermissionDenied"]
        /\ Len(trace[p]) = 2
        /\ trace[p][1] = [op |-> "open", res |-> "AlreadyExists", changed |-> FALSE]
        /\ trace[p][2] = [op |-> "open", res |-> "PermissionDenied", changed |-> FALSE]
        /\ duplicates[p] = 2

\* The entries of <trash_dir>/files in a file system.
ContentEntries(f) ==
    {q \in f.dirs \cup DOMAIN f.files : parent(q) = trash_dir_store_files}

\* The metadata path that belongs to an entry of <trash_dir>/files.
MetadataOf(q) == join(trash_info_dir, last_component(q) \o TrashinfoSuffix)

\* Whether p's call has reserved its metadata file and then written its
\* record to it.
ReservedThenWritten(p) ==
    \E j, k \in 1..Len(trace[p]) :
        /\ j < k
        /\ trace[p][j].op = "open" /\ trace[p][j].res = "Ok"
        /\ trace[p][k].op = "write" /\ trace[p][k].res = "Ok"

\* C16: in a run that starts with no entry in <trash_dir>/files, every entry
\* files/<N> has its info/<N>.trashinfo, reserved in the run and with a record
\* in it; and every move is attempted by a call that has reserved and written
\* its metadata file before, and puts into <trash_dir>/files nothing but the
\* entry named after that metadata file.
C16_MetadataFirst ==
    /\ [](ContentEntries(fs0) = {} =>
            \A q \in ContentEntries(fs) :
                /\ MetadataOf(q) \in DOMAIN fs.files
                /\ fs.files[MetadataOf(q)] # <<>>
                /\ \E i \in 1..Len(reserved) : reserved[i].info_path = MetadataOf(q))
    /\ [][\A p \in Procs :
            (pc[p] \in {"move", "retry"} /\ pc'[p] # pc[p]) =>
                /\ ReservedThenWritten(p)
                /\ info_path[p] \in DOMAIN fs.files
                /\ fs.files[info_path[p]] # <<>>
                /\ \A q \in ContentEntries(fs') \ ContentEntries(fs) :
                      MetadataOf(q) = info_path[p]
         ]_vars

\* C16's case: a run that started without a trash store, in which two calls
\* running at the same time have put a file and a directory of the same base
\* name into <trash_dir>/files.
C16_Witness ==
    /\ fs0 = NoStore
    /\ pc[1] = "done" /\ pc[2] = "done"
    /\ calls = 2
    /\ path[1] = FileA /\ path[2] = DirA
    /\ Len(Moves(1)) = 2 /\ Len(Moves(2)) = 2
    /\ Cardinality(ContentEntries(fs)) = 2
    /\ \E q \in ContentEntries(fs) : is_dir(fs, q)
    /\ \E q \in ContentEntries(fs) : ~is_dir(fs, q)

\* Whether the run is two calls, one of each process, for different items
\* that exist, against a store in which neither <trash_dir>/info nor
\* <trash_dir>/files exists, and both calls have ended.
TwoCallsNoStore ==
    /\ fs0 = NoStore
    /\ calls = 2
    /\ pc[1] = "done" /\ pc[2] = "done"
    /\ path[1] # path[2]
    /\ \A p \in Procs : exists(fs0, path[p]) /\ file_name(path[p]).tag = "Some"

\* C17: two calls for different items against a store without info/ and
\* files/ both succeed, under every interleaving: every directory creation
\* succeeds, whichever process came first, and the calls end with two
\* different metadata files and two different entries of <trash_dir>/files,
\* all of them there.
C17_BothSucceed ==
    TwoCallsNoStore =>
        /\ \A p \in Procs :
              /\ result[p].tag = "Ok"
              /\ \A i \in 1..Len(trace[p]) :
                    trace[p][i].op \in {"create_info_dir", "create_files_dir"} => trace[p][i].res = "Ok"
              /\ result[p].val.info_file \in DOMAIN fs.files
              /\ fs.files[result[p].val.info_file] # <<>>
              /\ exists(fs, result[p].val.trash_file)
              /\ ~exists(fs, path[p])
        /\ result[1].val.info_file # result[2].val.info_file
        /\ result[1].val.trash_file # result[2].val.trash_file

\* C17's case: both calls found both directories missing and both went on to
\* create them, so that for each directory one creation made it and the other
\* found it made.
C17_Witness ==
    /\ TwoCallsNoStore
    /\ \A p \in Procs : Len(InfoDirCreations(p)) = 1 /\ Len(FilesDirCreations(p)) = 1
    /\ \E p \in Procs : InfoDirCreations(p)[1].changed /\ ~InfoDirCreations(3 - p)[1].changed
    /\ \E p \in Procs : FilesDirCreations(p)[1].changed /\ ~FilesDirCreations(3 - p)[1].changed
    /\ result[1].tag = "Ok" /\ result[2].tag = "Ok"

\* Whether p is inside the loop of reserve_filename.
InLoop(p) == pc[p] \in {"open", "create_info_dir"}

\* The metadata path of the k-th name of base.
InfoPathFor(base, k) == join(trash_info_dir, NameFor(base, k))

\* C18: with nothing removed from <trash_dir>/info, every reservation leaves
\* its loop; it makes one create, one more for each name it collides with
\* (each of them taken at that time) and one more when it found the directory
\* missing; and when its create succeeds, the counter is the smallest one
\* whose name was free: every name of a smaller counter is taken, the name of
\* its counter was free and is the file created.
C18_ReservationTerminates ==
    /\ \A p \in Procs : InLoop(p) ~> ~InLoop(p)
    /\ [](\A p \in Procs :
            (path[p] # <<>> /\ file_name(path[p]).tag = "Some") =>
                /\ Len(Opens(p)) <= 1 + Count(Opens(p), "AlreadyExists") + Count(Opens(p), "NotFound")
                /\ Count(Opens(p), "NotFound") <= 1
                /\ Count(Opens(p), "AlreadyExists") = duplicates[p] - 1
                /\ \A k \in 1..(duplicates[p] - 1) : InfoPathFor(BaseOf(p), k) \in DOMAIN fs.files)
    /\ [][\A p \in Procs :
            (pc[p] = "open" /\ pc'[p] = "canonicalize") =>
                /\ \A k \in 1..(duplicates[p] - 1) : InfoPathFor(BaseOf(p), k) \in DOMAIN fs.files
                /\ InfoPathFor(BaseOf(p), duplicates[p]) \notin DOMAIN fs.files
                /\ InfoPathFor(BaseOf(p), duplicates[p]) \in DOMAIN fs'.files
                /\ info_path'[p] = InfoPathFor(BaseOf(p), duplicates'[p])
                /\ duplicates'[p] = duplicates[p]
         ]_vars

\* C18's case: a reservation has returned with the counter 3, after a create
\* that found the directory missing and two collisions, the second of them
\* with a file the other process created while this reservation was running.
C18_Witness ==
    \E p \in Procs :
        /\ pc[p] = "canonicalize"
        /\ duplicates[p] = 3
        /\ Len(Opens(p)) = 4
        /\ Opens(p)[1].res = "NotFound"
        /\ Opens(p)[4].res = "Ok"
        /\ InFlight(3 - p)

============================================================================
